---------------------------- MODULE Spec2Model ----------------------------
(***************************************************************************)
(* The online perceptron of scripts/perceptron.py as a state machine.      *)
(*                                                                         *)
(* Numbers.  w, b and learning_rate are floats in the source.  The model   *)
(* keeps them exactly, as integers counting hundredths (1 = 0.01, the      *)
(* default learning rate): features and labels are integers, so every      *)
(* update learning_rate * error * x[i] is again a whole number of          *)
(* hundredths and the sign of z = x.w + b is the sign of the scaled sum.   *)
(* The quotient correct / len(x) is kept as the reduced fraction           *)
(* <<numerator, denominator>>.  Floating-point rounding is not modelled.   *)
(*                                                                         *)
(* Control.  train is cut at its loop heads: one step per call, per epoch  *)
(* head, per sample, per epoch tail and per return.  pc is the position    *)
(* of the (single-threaded) caller.                                        *)
(***************************************************************************)
EXTENDS Integers, Sequences, FiniteSets, TLC

VARIABLES
    w,                  \* self.w, a sequence of input_size weights
    b,                  \* self.b
    learning_rate,      \* self.learning_rate
    error_history,      \* self.error_history
    accuracy_history,   \* self.accuracy_history, reduced fractions
    training_data,      \* self.training_data: None or <<x, y>>
    pc,                 \* "idle", "for_epoch", "for_i", "after_loop"
    x, y, epochs, resultados,               \* arguments of the running train
    epoch, i, errors, correct,              \* locals of train
    convergence_epoch, y_pred, error,       \* locals of train
    ret,                \* outcome of the last train call
    printed,            \* what print_results reported in the last train call
    pred_in, pred_out,  \* argument and result of the last predict call
    last_op,            \* the operation that made the last step
    calls,              \* train calls started so far
    hist_base,          \* len(error_history) when the running call started
    epoch_n,            \* len(x) of the call that recorded each history entry
    w_epoch, b_epoch,   \* w and b at the head of the running epoch
    errs,               \* the error of each sample processed in this epoch
    updates,            \* updates applied to w and b since construction
    epochs_run,         \* epochs completed since construction, over all calls
    trained,            \* a train call with epochs >= 1 has returned
    before,             \* the model's fields when the running call started,
                        \* kept until that call returns
    cota,               \* what the last evaluar_cota call reported
    epoch_log,          \* per history entry: the (x, y) of its epoch and the
                        \* updates applied since construction at its end
    dates               \* the validate_date_range call: arguments, outcome

vars == <<w, b, learning_rate, error_history, accuracy_history, training_data,
          pc, x, y, epochs, resultados, epoch, i, errors, correct,
          convergence_epoch, y_pred, error, ret, printed, pred_in, pred_out,
          last_op, calls, hist_base, epoch_n, w_epoch, b_epoch, errs, updates,
          epochs_run, trained, before, cota, epoch_log, dates>>

-----------------------------------------------------------------------------
(* Bounds of the model *)

\* initial weights and bias are drawn from -WInit .. WInit (hundredths)
WInit == 1
\* train is called with epochs 0, 1 or MaxEpochs
MaxEpochs == 2
\* at most MaxCalls train calls on one model
MaxCalls == 2

-----------------------------------------------------------------------------
(* Values *)

None == <<"None">>

\* the outcome of a call: nothing yet, a returned value, a raised exception
NoResult == [kind |-> "none", val |-> 0, exc |-> ""]
Returned(v) == [kind |-> "return", val |-> v, exc |-> ""]
Raised(e) == [kind |-> "raise", val |-> 0, exc |-> e]

\* no evaluar_cota call since the last train call
NoCota == [kind |-> "none"]

\* no validate_date_range call
NoDates == [kind |-> "none"]

Abs(n) == IF n < 0 THEN -n ELSE n

RECURSIVE Gcd(_, _)
Gcd(m, n) == IF n = 0 THEN m ELSE Gcd(n, m % n)

\* the float m / n, kept as a reduced fraction (n > 0)
Quotient(m, n) == LET g == Gcd(Abs(m), n) IN <<m \div g, n \div g>>

\* np.dot of two vectors of the same length (on others, which np.dot
\* refuses, the product of the common prefix; see Aligned)
RECURSIVE dot(_, _)
dot(u, v) == IF Len(u) = 0 \/ Len(v) = 0 THEN 0
             ELSE Head(u) * Head(v) + dot(Tail(u), Tail(v))

\* a product that drops the features w has no weight for
Aligned_truncating(xv, ww) == Len(xv) >= Len(ww)

\* np.dot(x, self.w) is defined only when the lengths agree
Aligned(xv, ww) == Len(xv) = Len(ww)

\* a predict that returns np.sign(z): 0 on the decision boundary
predict_sign(xv, ww, bb) == LET z == dot(xv, ww) + bb
                            IN IF z > 0 THEN 1 ELSE IF z < 0 THEN -1 ELSE 0

\* Perceptron.predict on one sample
predict(xv, ww, bb) == IF dot(xv, ww) + bb >= 0 THEN 1 ELSE -1

\* Perceptron.predict on a batch: one prediction per row
predict_batch(xs, ww, bb) == [k \in 1..Len(xs) |-> predict(xs[k], ww, bb)]

\* a sign slip: w -= learning_rate * error * x[i]
update_w_away(ww, lr, err, xv) == [k \in 1..Len(ww) |-> ww[k] - lr * err * xv[k]]

\* the conventional rule w += learning_rate * y[i] * x[i], half the step
update_w_conventional(ww, lr, err, xv) ==
    [k \in 1..Len(ww) |-> ww[k] + lr * (err \div 2) * xv[k]]

\* self.w += self.learning_rate * error * x[i].reshape(-1, 1)
update_w(ww, lr, err, xv) == [k \in 1..Len(ww) |-> ww[k] + lr * err * xv[k]]

\* a rule that never moves the bias
update_b_fixed(bb, lr, err) == bb

\* self.b += self.learning_rate * error
update_b(bb, lr, err) == bb + lr * err


\* a mistake counter that misses the mistakes on negative samples
count_errors_positive(n, err) == IF err > 0 THEN n + 1 ELSE n

\* a mistake counter outside the if: every sample counts as a mistake
count_errors_always(n, err) == n + 1

\* a hit counter without the else: every sample counts as a hit
count_correct_always(n, err) == n + 1

\* a mistake counter that adds the size of the error: errors += abs(error)
count_errors_magnitude(n, err) == n + Abs(err)

\* lines 72-77: a sample with a non-zero error is a mistake, any other a hit
count_errors(n, err) == IF err # 0 THEN n + 1 ELSE n
count_correct(n, err) == IF err # 0 THEN n ELSE n + 1

\* a loop that runs until an epoch has no errors, whatever epochs says
loop_until_converged(ep, eps) == TRUE

\* line 61: for epoch in range(epochs)
loop_continues(ep, eps) == ep < eps

\* lines 86-90: the break sits inside "if resultados"
breaks(errs_, res) == errs_ = 0 /\ res

\* a convergence epoch that keeps the loop index: convergence_epoch = epoch
convergence_epoch_zero_based(ce, errs_, ep) == IF errs_ = 0 THEN ep ELSE ce

\* line 87: convergence_epoch is (re)assigned at every epoch without errors
next_convergence_epoch(ce, errs_, ep) == IF errs_ = 0 THEN ep + 1 ELSE ce

Last(s) == s[Len(s)]

-----------------------------------------------------------------------------
(* Inputs *)

\* sample sets handed to train in the general specification
DataSep      == <<  << <<1, 1>>, <<-1, 1>> >>,           <<1, -1>>  >>
DataConflict == <<  << <<1, 0>>, <<1, 0>>, <<0, 1>> >>,  <<1, -1, 1>>  >>
DataBadLabel == <<  << <<1, 0>> >>,                      <<0>>  >>
DataEmpty    == <<  <<>>,                                <<>>  >>
DataMismatch == <<  << <<1, 0, 1>> >>,                   <<1>>  >>

Datasets == {DataSep, DataConflict, DataBadLabel, DataEmpty, DataMismatch}

\* arguments of predict calls between train calls
PredictInputs == {<<1, 1>>, <<-1, 0>>, <<0, 0>>, <<1, 0, 1>>}

InitWeights == (-WInit)..WInit

\* learning rate of the general specification: 0.02
LearningRates == {2}

\* the epochs arguments of train in the general specification
EpochsArgs == {0, 1, MaxEpochs}

-----------------------------------------------------------------------------
(* Perceptron.__init__ *)

Construct(lr, w0, b0) ==
    /\ w = w0
    /\ b = b0
    /\ learning_rate = lr
    /\ error_history = <<>>
    /\ accuracy_history = <<>>
    /\ training_data = None
    /\ pc = "idle"
    /\ x = <<>> /\ y = <<>> /\ epochs = 0 /\ resultados = FALSE
    /\ epoch = 0 /\ i = 0 /\ errors = 0 /\ correct = 0
    /\ convergence_epoch = 0 /\ y_pred = 0 /\ error = 0
    /\ ret = NoResult
    /\ printed = None
    /\ pred_in = None /\ pred_out = NoResult
    /\ last_op = "init"
    /\ calls = 0
    /\ hist_base = 0
    /\ epoch_n = <<>>
    /\ w_epoch = w0 /\ b_epoch = b0
    /\ errs = <<>>
    /\ updates = 0
    /\ epochs_run = 0
    /\ trained = FALSE
    /\ before = None
    /\ cota = NoCota
    /\ epoch_log = <<>>
    /\ dates = NoDates

Init == \E lr \in LearningRates, w1 \in InitWeights, w2 \in InitWeights,
           b0 \in InitWeights : Construct(lr, <<w1, w2>>, b0)

-----------------------------------------------------------------------------
(* Perceptron.train *)

\* a train that stores only the first sample set it is given
stored_training_data_first(xs, ys) ==
    IF training_data = None THEN <<xs, ys>> ELSE training_data

\* line 47: self.training_data = (x, y)
stored_training_data(xs, ys) == <<xs, ys>>

\* a train that starts from fresh histories at every call
TrainCallFresh(xs, ys, ep, res) ==
    /\ pc = "idle"
    /\ training_data' = stored_training_data(xs, ys)
    /\ convergence_epoch' = ep
    /\ x' = xs /\ y' = ys /\ epochs' = ep /\ resultados' = res
    /\ epoch' = 0 /\ i' = 0 /\ errors' = 0 /\ correct' = 0
    /\ y_pred' = 0 /\ error' = 0
    /\ pc' = "for_epoch"
    /\ ret' = NoResult
    /\ printed' = None
    /\ pred_in' = None /\ pred_out' = NoResult
    /\ last_op' = "train"
    /\ calls' = calls + 1
    /\ hist_base' = 0
    /\ w_epoch' = w /\ b_epoch' = b
    /\ errs' = <<>>
    /\ before' = [w |-> w, b |-> b, error_history |-> error_history,
                  accuracy_history |-> accuracy_history,
                  training_data |-> training_data]
    /\ cota' = NoCota
    /\ error_history' = <<>> /\ accuracy_history' = <<>> /\ epoch_n' = <<>>
    /\ epoch_log' = <<>>
    /\ UNCHANGED <<dates,
                   w, b, learning_rate, updates, epochs_run, trained>>

\* a train that starts from zero weights and bias at every call
TrainCallReinit(xs, ys, ep, res) ==
    /\ pc = "idle"
    /\ training_data' = stored_training_data(xs, ys)
    /\ convergence_epoch' = ep
    /\ x' = xs /\ y' = ys /\ epochs' = ep /\ resultados' = res
    /\ epoch' = 0 /\ i' = 0 /\ errors' = 0 /\ correct' = 0
    /\ y_pred' = 0 /\ error' = 0
    /\ pc' = "for_epoch"
    /\ ret' = NoResult
    /\ printed' = None
    /\ pred_in' = None /\ pred_out' = NoResult
    /\ last_op' = "train"
    /\ calls' = calls + 1
    /\ hist_base' = Len(error_history)
    /\ w_epoch' = [k \in 1..Len(w) |-> 0] /\ b_epoch' = 0
    /\ errs' = <<>>
    /\ before' = [w |-> w, b |-> b, error_history |-> error_history,
                  accuracy_history |-> accuracy_history,
                  training_data |-> training_data]
    /\ cota' = NoCota
    /\ w' = [k \in 1..Len(w) |-> 0] /\ b' = 0
    /\ UNCHANGED <<dates, epoch_log,
                   learning_rate, error_history, accuracy_history,
                   epoch_n, updates, epochs_run, trained>>

\* lines 45-59: the call, up to the head of the epoch loop
TrainCall(xs, ys, ep, res) ==
    /\ pc = "idle"
    /\ training_data' = stored_training_data(xs, ys)
    /\ convergence_epoch' = ep
    /\ x' = xs /\ y' = ys /\ epochs' = ep /\ resultados' = res
    /\ epoch' = 0 /\ i' = 0 /\ errors' = 0 /\ correct' = 0
    /\ y_pred' = 0 /\ error' = 0
    /\ pc' = "for_epoch"
    /\ ret' = NoResult
    /\ printed' = None
    /\ pred_in' = None /\ pred_out' = NoResult
    /\ last_op' = "train"
    /\ calls' = calls + 1
    /\ hist_base' = Len(error_history)
    /\ w_epoch' = w /\ b_epoch' = b
    /\ errs' = <<>>
    /\ before' = [w |-> w, b |-> b, error_history |-> error_history,
                  accuracy_history |-> accuracy_history,
                  training_data |-> training_data]
    /\ cota' = NoCota
    /\ UNCHANGED <<dates, epoch_log,
                   w, b, learning_rate, error_history, accuracy_history,
                   epoch_n, updates,
                   epochs_run, trained>>

\* lines 61-65: the head of the epoch loop, entering an epoch
EpochBegin ==
    /\ pc = "for_epoch"
    /\ loop_continues(epoch, epochs)
    /\ errors' = 0 /\ correct' = 0 /\ i' = 0
    /\ pc' = "for_i"
    /\ w_epoch' = w /\ b_epoch' = b
    /\ errs' = <<>>
    /\ UNCHANGED <<dates, epoch_log,
                   w, b, learning_rate, error_history, accuracy_history,
                   training_data, x, y, epochs, resultados, epoch,
                   convergence_epoch, y_pred, error, ret, printed, pred_in,
                   pred_out, last_op, calls, hist_base, epoch_n, updates,
                   epochs_run, trained, before, cota>>

\* line 61: range(epochs) is exhausted
LoopExit ==
    /\ pc = "for_epoch"
    /\ ~loop_continues(epoch, epochs)
    /\ pc' = "after_loop"
    /\ UNCHANGED <<dates, epoch_log,
                   w, b, learning_rate, error_history, accuracy_history,
                   training_data, x, y, epochs, resultados, epoch, i, errors,
                   correct, convergence_epoch, y_pred, error, ret, printed,
                   pred_in, pred_out, last_op, calls, hist_base, epoch_n,
                   w_epoch, b_epoch, errs, updates,
                   epochs_run, trained, before, cota>>

\* a batch rule: every sample of an epoch is predicted with the weights the
\* epoch started with
sample_prediction_batch(xv) == predict(xv, w_epoch, b_epoch)

\* line 69: y_pred = self.predict(x[i]), with the current self.w and self.b
sample_prediction(xv) == predict(xv, w, b)

\* an error taken only for labels of the domain: others are let through
sample_error_in_domain(yv, yp) == IF yv \in {-1, 1} THEN yv - yp ELSE 0

\* line 70: error = y[i] - y_pred
sample_error(yv, yp) == yv - yp

\* lines 68-77: one sample, its feature count matching w
Sample ==
    /\ pc = "for_i"
    /\ i < Len(x)
    /\ Aligned(x[i + 1], w)
    /\ i < Len(y)
    /\ LET yp == sample_prediction(x[i + 1])
           e  == sample_error(y[i + 1], yp)
       IN /\ y_pred' = yp
          /\ error' = e
          /\ IF e # 0
             THEN /\ w' = update_w(w, learning_rate, e, x[i + 1])
                  /\ b' = update_b(b, learning_rate, e)
                  /\ updates' = updates + 1
             ELSE UNCHANGED <<w, b, updates>>
          /\ errors' = count_errors(errors, e)
          /\ correct' = count_correct(correct, e)
          /\ errs' = Append(errs, e)
    /\ i' = i + 1
    /\ UNCHANGED <<dates, epoch_log,
                   learning_rate, error_history, accuracy_history,
                   training_data, pc, x, y, epochs, resultados, epoch,
                   convergence_epoch, ret, printed, pred_in, pred_out,
                   last_op, calls, hist_base, epoch_n, w_epoch, b_epoch,
                   epochs_run, trained, before, cota>>

\* line 69 -> 42: np.dot raises ValueError on a sample of another length
SampleRaise ==
    /\ pc = "for_i"
    /\ i < Len(x)
    /\ ~Aligned(x[i + 1], w)
    /\ pc' = "idle"
    /\ ret' = Raised("ValueError")
    /\ UNCHANGED <<dates, epoch_log,
                   w, b, learning_rate, error_history, accuracy_history,
                   training_data, x, y, epochs, resultados, epoch, i, errors,
                   correct, convergence_epoch, y_pred, error, printed,
                   pred_in, pred_out, last_op, calls, hist_base, epoch_n,
                   w_epoch, b_epoch, errs, updates,
                   epochs_run, trained, before, cota>>

\* line 70: y[i] raises IndexError when y has fewer entries than x; the
\* updates made for the samples before it stay
SampleIndexRaise ==
    /\ pc = "for_i"
    /\ i < Len(x)
    /\ Aligned(x[i + 1], w)
    /\ i >= Len(y)
    /\ y_pred' = sample_prediction(x[i + 1])
    /\ pc' = "idle"
    /\ ret' = Raised("IndexError")
    /\ UNCHANGED <<dates, epoch_log,
                   w, b, learning_rate, error_history, accuracy_history,
                   training_data, x, y, epochs, resultados, epoch, i, errors,
                   correct, convergence_epoch, error, printed,
                   pred_in, pred_out, last_op, calls, hist_base, epoch_n,
                   w_epoch, b_epoch, errs, updates,
                   epochs_run, trained, before, cota>>

\* lines 79-90: the tail of an epoch over a non-empty sample set
EpochEnd ==
    /\ pc = "for_i"
    /\ i >= Len(x)
    /\ Len(x) > 0
    /\ error_history' = Append(error_history, errors)
    /\ accuracy_history' = Append(accuracy_history, Quotient(correct, Len(x)))
    /\ epoch_n' = Append(epoch_n, Len(x))
    /\ epoch_log' = Append(epoch_log, [x |-> x, y |-> y, updates |-> updates])
    /\ convergence_epoch' = next_convergence_epoch(convergence_epoch, errors, epoch)
    /\ IF breaks(errors, resultados)
       THEN pc' = "after_loop" /\ epoch' = epoch
       ELSE pc' = "for_epoch" /\ epoch' = epoch + 1
    /\ epochs_run' = epochs_run + 1
    /\ UNCHANGED <<dates,
                   w, b, learning_rate, training_data, x, y, epochs,
                   resultados, i, errors, correct, y_pred, error, ret,
                   printed, pred_in, pred_out, last_op, calls, hist_base,
                   w_epoch, b_epoch, errs, updates,
                   trained, before, cota>>

\* line 79: correct / len(x) raises ZeroDivisionError on an empty sample set
EpochEndRaise ==
    /\ pc = "for_i"
    /\ i >= Len(x)
    /\ Len(x) = 0
    /\ pc' = "idle"
    /\ ret' = Raised("ZeroDivisionError")
    /\ UNCHANGED <<dates, epoch_log,
                   w, b, learning_rate, error_history, accuracy_history,
                   training_data, x, y, epochs, resultados, epoch, i, errors,
                   correct, convergence_epoch, y_pred, error, printed,
                   pred_in, pred_out, last_op, calls, hist_base, epoch_n,
                   w_epoch, b_epoch, errs, updates,
                   epochs_run, trained, before, cota>>


\* lines 101-102 of print_results: the "final accuracy" it prints
final_accuracy(hist, n) ==
    LET final_errors == IF hist # <<>> THEN Last(hist) ELSE n
    IN Quotient(n - final_errors, n)

\* lines 114-116 of print_results: the predictions that equal their label
confusion_correct(xs, ys, ww, bb) ==
    Cardinality({k \in 1..Len(xs) : predict_batch(xs, ww, bb)[k] = ys[k]})

\* lines 92-95 with resultados off: the return
TrainReturnQuiet ==
    /\ pc = "after_loop"
    /\ ~resultados
    /\ pc' = "idle"
    /\ ret' = Returned(convergence_epoch)
    /\ trained' = (trained \/ epochs >= 1)
    /\ before' = None
    /\ UNCHANGED <<dates, epoch_log,
                   w, b, learning_rate, error_history, accuracy_history,
                   training_data, x, y, epochs, resultados, epoch, i, errors,
                   correct, convergence_epoch, y_pred, error, printed,
                   pred_in, pred_out, last_op, calls, hist_base, epoch_n,
                   w_epoch, b_epoch, errs, updates,
                   epochs_run, cota>>

\* lines 92-95 with resultados on: print_results (98-121), then the return
TrainReturnVerbose ==
    /\ pc = "after_loop"
    /\ resultados
    /\ Len(x) > 0
    /\ \A k \in 1..Len(x) : Aligned(x[k], w)
    /\ pc' = "idle"
    /\ printed' = [final_accuracy |-> final_accuracy(error_history, Len(x)),
                   correct |-> confusion_correct(x, y, w, b),
                   epochs |-> convergence_epoch]
    /\ ret' = Returned(convergence_epoch)
    /\ trained' = (trained \/ epochs >= 1)
    /\ before' = None
    /\ UNCHANGED <<dates, epoch_log,
                   w, b, learning_rate, error_history, accuracy_history,
                   training_data, x, y, epochs, resultados, epoch, i, errors,
                   correct, convergence_epoch, y_pred, error, pred_in,
                   pred_out, last_op, calls, hist_base, epoch_n, w_epoch,
                   b_epoch, errs, updates,
                   epochs_run, cota>>

\* line 93 -> 102 or 114: print_results raises, on an empty sample set
\* (n - final_errors) / n, on rows of another length np.dot
TrainReturnRaise ==
    /\ pc = "after_loop"
    /\ resultados
    /\ \/ Len(x) = 0
       \/ \E k \in 1..Len(x) : ~Aligned(x[k], w)
    /\ pc' = "idle"
    /\ ret' = IF Len(x) = 0 THEN Raised("ZeroDivisionError")
                            ELSE Raised("ValueError")
    /\ UNCHANGED <<dates, epoch_log,
                   w, b, learning_rate, error_history, accuracy_history,
                   training_data, x, y, epochs, resultados, epoch, i, errors,
                   correct, convergence_epoch, y_pred, error, printed,
                   pred_in, pred_out, last_op, calls, hist_base, epoch_n,
                   w_epoch, b_epoch, errs, updates,
                   epochs_run, trained, before, cota>>

-----------------------------------------------------------------------------
(* Perceptron.train as a function of the model it starts from, for          *)
(* comparing calls that differ in one argument                               *)

\* lines 68-77: samples k .. len(x) of an epoch, from weights ww, bias bb and
\* the counters errs_, corr
RECURSIVE epoch_from(_, _, _, _, _)
epoch_from(k, ww, bb, errs_, corr) ==
    IF k > Len(x) THEN [w |-> ww, b |-> bb, errors |-> errs_, correct |-> corr]
    ELSE LET e == sample_error(y[k], predict(x[k], ww, bb))
         IN IF e # 0
            THEN epoch_from(k + 1, update_w(ww, learning_rate, e, x[k]),
                            update_b(bb, learning_rate, e),
                            count_errors(errs_, e), count_correct(corr, e))
            ELSE epoch_from(k + 1, ww, bb,
                            count_errors(errs_, e), count_correct(corr, e))

\* lines 61-90: the epochs from st.epoch on, with the verbose flag res
RECURSIVE train_from(_, _)
train_from(st, res) ==
    IF ~loop_continues(st.epoch, epochs) THEN st
    ELSE LET r  == epoch_from(1, st.w, st.b, 0, 0)
             st2 == [w |-> r.w, b |-> r.b,
                     error_history |-> Append(st.error_history, r.errors),
                     accuracy_history |->
                         Append(st.accuracy_history, Quotient(r.correct, Len(x))),
                     convergence_epoch |->
                         next_convergence_epoch(st.convergence_epoch,
                                                r.errors, st.epoch),
                     epoch |-> st.epoch + 1]
         IN IF breaks(r.errors, res) THEN st2 ELSE train_from(st2, res)

\* lines 47-90: what the running call computes from the model it started
\* from, were its verbose flag res
TrainOutcome(res) ==
    train_from([w |-> before.w, b |-> before.b,
                error_history |-> before.error_history,
                accuracy_history |-> before.accuracy_history,
                convergence_epoch |-> epochs, epoch |-> 0], res)

-----------------------------------------------------------------------------
(* Perceptron.predict, called between train calls *)

\* a predict that adds the product into self.b in place (z = self.b; z += ...)
PredictCallInPlace(xv) ==
    /\ pc = "idle"
    /\ pred_in' = xv
    /\ pred_out' = IF Aligned(xv, w) THEN Returned(predict(xv, w, b))
                                     ELSE Raised("ValueError")
    /\ b' = IF Aligned(xv, w) THEN dot(xv, w) + b ELSE b
    /\ last_op' = "predict"
    /\ UNCHANGED <<dates, epoch_log,
                   w, learning_rate, error_history, accuracy_history,
                   training_data, pc, x, y, epochs, resultados, epoch, i,
                   errors, correct, convergence_epoch, y_pred, error, ret,
                   printed, calls, hist_base, epoch_n, w_epoch, b_epoch,
                   errs, updates,
                   epochs_run, trained, before, cota>>

\* lines 41-43
PredictCall(xv) ==
    /\ pc = "idle"
    /\ pred_in' = xv
    /\ pred_out' = IF Aligned(xv, w) THEN Returned(predict(xv, w, b))
                                     ELSE Raised("ValueError")
    /\ last_op' = "predict"
    /\ UNCHANGED <<dates, epoch_log,
                   w, b, learning_rate, error_history, accuracy_history,
                   training_data, pc, x, y, epochs, resultados, epoch, i,
                   errors, correct, convergence_epoch, y_pred, error, ret,
                   printed, calls, hist_base, epoch_n, w_epoch, b_epoch,
                   errs, updates,
                   epochs_run, trained, before, cota>>

-----------------------------------------------------------------------------
(* Perceptron.evaluar_cota, called between train calls *)

\* the float results of a division by zero, as fractions: x / 0 and 0 / 0
Inf == <<1, 0>>
NaN == <<0, 0>>

SetMax(S) == CHOOSE m \in S : \A n \in S : n <= m
SetMin(S) == CHOOSE m \in S : \A n \in S : m <= n

\* np.linalg.norm(v) ** 2
norm_sq(v) == dot(v, v)

\* lines 17 and 24: R ** 2 with R = np.max(np.linalg.norm(x, axis = 1))
cota_R2(xs) == SetMax({norm_sq(xs[k]) : k \in 1..Len(xs)})

\* a margin taken without np.abs
cota_rho_signed(xs, ys, wv) ==
    SetMin({ys[k] * dot(xs[k], wv) : k \in 1..Len(xs)})

\* lines 19-20: rho = np.min(np.abs(y * (x @ w).flatten()))
cota_rho(xs, ys, wv) ==
    SetMin({Abs(ys[k] * dot(xs[k], wv)) : k \in 1..Len(xs)})

\* line 24: bound = (R ** 2) / (rho ** 2) * nsq_w, in numpy floats: a zero
\* rho ** 2 gives inf or nan (with a RuntimeWarning), never an exception
cota_bound(R2, rho, nsq_w) ==
    IF rho # 0 THEN Quotient(R2 * nsq_w, rho * rho)
    ELSE IF R2 = 0 \/ nsq_w = 0 THEN NaN ELSE Inf

\* line 33: steps <= bound (true against inf, false against nan)
cota_holds(steps, bound) ==
    IF bound[2] = 0 THEN bound = Inf ELSE steps * bound[2] <= bound[1]

\* an evaluar_cota that keeps the w it was given: self.w = w
EvaluarCotaKeep(xs, ys, wv, steps) ==
    /\ pc = "idle"
    /\ Len(xs) > 0
    /\ \A k \in 1..Len(xs) : Aligned(xs[k], wv)
    /\ LET R2    == cota_R2(xs)
           rho   == cota_rho(xs, ys, wv)
           nsq_w == norm_sq(wv)
           bound == cota_bound(R2, rho, nsq_w)
       IN cota' = [kind |-> "report", x |-> xs, y |-> ys, w |-> wv,
                   steps |-> steps, R2 |-> R2, rho |-> rho, nsq_w |-> nsq_w,
                   bound |-> bound, holds |-> cota_holds(steps, bound)]
    /\ last_op' = "cota"
    /\ w' = wv
    /\ UNCHANGED <<dates, epoch_log,
                   b, learning_rate, error_history, accuracy_history,
                   training_data, pc, x, y, epochs, resultados, epoch, i,
                   errors, correct, convergence_epoch, y_pred, error, ret,
                   printed, pred_in, pred_out, calls, hist_base, epoch_n,
                   w_epoch, b_epoch, errs, updates, epochs_run, trained,
                   before>>

\* lines 15-33 on a non-empty sample set with the feature count of w
EvaluarCota(xs, ys, wv, steps) ==
    /\ pc = "idle"
    /\ Len(xs) > 0
    /\ \A k \in 1..Len(xs) : Aligned(xs[k], wv)
    /\ LET R2    == cota_R2(xs)
           rho   == cota_rho(xs, ys, wv)
           nsq_w == norm_sq(wv)
           bound == cota_bound(R2, rho, nsq_w)
       IN cota' = [kind |-> "report", x |-> xs, y |-> ys, w |-> wv,
                   steps |-> steps, R2 |-> R2, rho |-> rho, nsq_w |-> nsq_w,
                   bound |-> bound, holds |-> cota_holds(steps, bound)]
    /\ last_op' = "cota"
    /\ UNCHANGED <<dates, epoch_log,
                   w, b, learning_rate, error_history, accuracy_history,
                   training_data, pc, x, y, epochs, resultados, epoch, i,
                   errors, correct, convergence_epoch, y_pred, error, ret,
                   printed, pred_in, pred_out, calls, hist_base, epoch_n,
                   w_epoch, b_epoch, errs, updates, epochs_run, trained,
                   before>>

\* line 17 or 19: np.max raises ValueError on an empty sample set, x @ w on
\* rows of another length than w
EvaluarCotaRaise(xs, ys, wv, steps) ==
    /\ pc = "idle"
    /\ \/ Len(xs) = 0
       \/ \E k \in 1..Len(xs) : ~Aligned(xs[k], wv)
    /\ cota' = [kind |-> "raise", x |-> xs, y |-> ys, w |-> wv,
                steps |-> steps, exc |-> "ValueError"]
    /\ last_op' = "cota"
    /\ UNCHANGED <<dates, epoch_log,
                   w, b, learning_rate, error_history, accuracy_history,
                   training_data, pc, x, y, epochs, resultados, epoch, i,
                   errors, correct, convergence_epoch, y_pred, error, ret,
                   printed, pred_in, pred_out, calls, hist_base, epoch_n,
                   w_epoch, b_epoch, errs, updates, epochs_run, trained,
                   before>>

-----------------------------------------------------------------------------
(* The general specification: any sequence of train and predict calls *)

TrainStep == \/ EpochBegin
             \/ LoopExit
             \/ Sample
             \/ SampleRaise
             \/ EpochEnd
             \/ EpochEndRaise
             \/ TrainReturnQuiet
             \/ TrainReturnVerbose
             \/ TrainReturnRaise

Next == \/ /\ calls < MaxCalls
           /\ \E d \in Datasets, ep \in EpochsArgs, res \in BOOLEAN :
                  TrainCall(d[1], d[2], ep, res)
        \/ TrainStep
        \/ \E xv \in PredictInputs : PredictCall(xv)

Spec == Init /\ [][Next]_vars


-----------------------------------------------------------------------------
(* Separable data: one train call with enough epochs on samples generated  *)
(* as linear_sep_data generates them, none on the separating boundary      *)

\* at most MaxSamples samples in a generated sample set
MaxSamples == 2

\* line 37 of linear_sep_data: w = np.ones((p, 1))
SepW == <<1, 1>>

\* line 36: features drawn from [-1, 1], here from its grid points
Grid == {-1, 0, 1}

\* the grid points that are not on the boundary x . w = 0
SepPoints == {pt \in Grid \X Grid : dot(pt, SepW) # 0}

\* lines 38-39 of linear_sep_data: y = np.where((x @ w) >= 0, 1, -1)
linear_sep_labels(xs) ==
    [k \in 1..Len(xs) |-> IF dot(xs[k], SepW) >= 0 THEN 1 ELSE -1]

SepSamples == UNION {[1..n -> SepPoints] : n \in 1..MaxSamples}

\* Epochs that suffice.  With u = (SepW, 0), every sample has y * (u . (x,1))
\* >= 1, |u|^2 = 2, |(x,1)|^2 <= 3 and |(w,b)| <= 2 * WInit initially; an
\* update adds c = 2 * learning_rate >= 2 hundredths of y * (x,1).  After k
\* updates (w,b) . u >= -|(w0,b0)| |u| + k c and |(w,b)|^2 <= |(w0,b0)|^2 +
\* 3 k c^2, so k <= 2 * 3 + 2 |(w0,b0)| |u| / c <= 6 + 3 * WInit.  Every
\* epoch before the first without errors makes at least one update.
EnoughEpochs == 6 + 3 * WInit + 1

InitSep == \E w1 \in InitWeights, w2 \in InitWeights, b0 \in InitWeights :
               Construct(1, <<w1, w2>>, b0)

TrainStepOk == \/ EpochBegin
               \/ LoopExit
               \/ Sample
               \/ EpochEnd
               \/ TrainReturnQuiet
               \/ TrainReturnVerbose

NextSep == \/ /\ calls = 0
              /\ \E xs \in SepSamples, res \in BOOLEAN :
                     TrainCall(xs, linear_sep_labels(xs), EnoughEpochs, res)
           \/ TrainStepOk

SpecSep == InitSep /\ [][NextSep]_vars

-----------------------------------------------------------------------------
(* Retraining: several quiet train calls of MaxEpochs epochs on one model,  *)
(* on sample sets that come back and on one with a label missing            *)

\* at most MaxRetrain train calls on one model
MaxRetrain == 3

\* two samples and one label
DataShortY == <<  << <<1, 1>>, <<-1, 1>> >>,  <<-1>>  >>

RetrainData == {DataSep, DataConflict, DataShortY}

NextRetrain == \/ /\ calls < MaxRetrain
                  /\ \E d \in RetrainData :
                         TrainCall(d[1], d[2], MaxEpochs, FALSE)
               \/ EpochBegin
               \/ LoopExit
               \/ Sample
               \/ SampleIndexRaise
               \/ EpochEnd
               \/ TrainReturnQuiet

SpecRetrain == Init /\ [][NextRetrain]_vars

-----------------------------------------------------------------------------
(* The diagnostic: evaluar_cota before and after one train call *)

\* evaluar_cota is called with steps in 0 .. MaxSteps
MaxSteps == 3

\* the w arguments of evaluar_cota, besides the model's own self.w
CotaWeights == {<<1, 1>>, <<1, 0>>}

CotaData == {DataSep, DataConflict, DataEmpty, DataMismatch}

\* one train call at most, and one evaluar_cota call before it and one
\* after it
NextCota == \/ /\ calls = 0
               /\ \E d \in Datasets, ep \in EpochsArgs, res \in BOOLEAN :
                      TrainCall(d[1], d[2], ep, res)
            \/ TrainStep
            \/ /\ cota.kind = "none"
               /\ \E d \in CotaData, wv \in CotaWeights \cup {w},
                     steps \in 0..MaxSteps :
                      EvaluarCota(d[1], d[2], wv, steps)
            \/ /\ cota.kind = "none"
               /\ \E d \in CotaData, wv \in CotaWeights \cup {w},
                     steps \in 0..MaxSteps :
                      EvaluarCotaRaise(d[1], d[2], wv, steps)

SpecCota == Init /\ [][NextCota]_vars

-----------------------------------------------------------------------------
(* The concrete scenario: four points, learning rate 0.1, 50 epochs *)

Scenario == [x |-> << <<1, 1>>, <<1, -1>>, <<-1, 1>>, <<-1, -1>> >>,
             y |-> <<1, 1, -1, -1>>,
             learning_rate |-> 10,
             epochs |-> 50]

\* initial weights and bias of the scenario: whole numbers (hundreds of
\* hundredths) up to WInit
ScenarioWeights == {100 * k : k \in InitWeights}

InitScenario == \E w1 \in ScenarioWeights, w2 \in ScenarioWeights,
                   b0 \in ScenarioWeights :
                    Construct(Scenario.learning_rate, <<w1, w2>>, b0)

NextScenario == \/ /\ calls = 0
                   /\ \E res \in BOOLEAN :
                          TrainCall(Scenario.x, Scenario.y, Scenario.epochs, res)
                \/ TrainStepOk
                \/ \E k \in 1..Len(Scenario.x) : PredictCall(Scenario.x[k])

SpecScenario == InitScenario /\ [][NextScenario]_vars

-----------------------------------------------------------------------------
(* CDSTools.validate_date_range of scripts/cds_tools.py.  A date string is   *)
(* the record of its three numbers and of whether month and day are written  *)
(* with two digits; a datetime is the tuple <<year, month, day>>.            *)

\* the date strings name DateYears years, the first of them a leap year
DateYears == 2
Years == {2024 + k : k \in 0..(DateYears - 1)}

\* the days the date strings name: some do not exist in every month
Days == {1, 29, 31}

\* start_date and end_date arguments
DateStrings ==
    {s \in [year : Years, month : 1..12, day : Days, padded : BOOLEAN] :
         s.padded \/ s.month < 10 \/ s.day < 10}

\* line 41: max_months: int = 12
DefaultMaxMonths == 12

\* max_months arguments
MaxMonthsArgs == {0, 1, DefaultMaxMonths}

IsLeap(yr) == yr % 4 = 0 /\ (yr % 100 # 0 \/ yr % 400 = 0)

DaysInMonth(yr, mo) ==
    IF mo = 2 THEN (IF IsLeap(yr) THEN 29 ELSE 28)
    ELSE IF mo \in {4, 6, 9, 11} THEN 30 ELSE 31

\* lines 55-56: datetime.strptime(s, '%Y-%m-%d') raises ValueError for a day
\* the month does not have, and reads digits with or without a leading zero
Parses(s) == s.day <= DaysInMonth(s.year, s.month)
strptime(s) == <<s.year, s.month, s.day>>

\* line 71: strftime('%Y-%m-%d') writes two digits
strftime(d) == [year |-> d[1], month |-> d[2], day |-> d[3], padded |-> TRUE]

\* d < e on datetimes
DateLt(d, e) ==
    \/ d[1] < e[1]
    \/ d[1] = e[1] /\ d[2] < e[2]
    \/ d[1] = e[1] /\ d[2] = e[2] /\ d[3] < e[3]

\* line 68: d + relativedelta(months = n): the month moves by n and the day
\* is cut to the last day of the month reached
AddMonths(d, n) ==
    LET t  == d[1] * 12 + (d[2] - 1) + n
        yr == t \div 12
        mo == (t % 12) + 1
        last == DaysInMonth(yr, mo)
    IN <<yr, mo, IF d[3] <= last THEN d[3] ELSE last>>

\* lines 63-64: relativedelta(e, s) for s <= e, as years * 12 + months: the
\* whole months from s to e; the days left over are dropped
total_months(e, s) ==
    LET m == (e[1] - s[1]) * 12 + (e[2] - s[2])
    IN IF DateLt(e, AddMonths(s, m)) THEN m - 1 ELSE m

\* lines 55-60: both strings parse and start_dt <= end_dt
DateArgsOk(start_date, end_date) ==
    /\ Parses(start_date) /\ Parses(end_date)
    /\ ~DateLt(strptime(end_date), strptime(start_date))

\* lines 53-74: the call returns (start_date, end_date)
ValidateDateRange(start_date, end_date, max_months) ==
    /\ DateArgsOk(start_date, end_date)
    /\ LET start_dt == strptime(start_date)
           end_dt   == strptime(end_date)
       IN dates' = [kind |-> "return", start_date |-> start_date,
                    end_date |-> end_date, max_months |-> max_months,
                    out_start |-> start_date,
                    out_end |-> IF total_months(end_dt, start_dt) > max_months
                                THEN strftime(AddMonths(start_dt, max_months))
                                ELSE end_date]
    /\ UNCHANGED <<w, b, learning_rate, error_history, accuracy_history,
                   training_data, pc, x, y, epochs, resultados, epoch, i,
                   errors, correct, convergence_epoch, y_pred, error, ret,
                   printed, pred_in, pred_out, last_op, calls, hist_base,
                   epoch_n, w_epoch, b_epoch, errs, updates, epochs_run,
                   trained, before, cota, epoch_log>>

\* lines 55-60 and 76-78: strptime or the order check raises ValueError,
\* which is logged and raised again
ValidateDateRangeRaise(start_date, end_date, max_months) ==
    /\ ~DateArgsOk(start_date, end_date)
    /\ dates' = [kind |-> "raise", start_date |-> start_date,
                 end_date |-> end_date, max_months |-> max_months,
                 exc |-> "ValueError"]
    /\ UNCHANGED <<w, b, learning_rate, error_history, accuracy_history,
                   training_data, pc, x, y, epochs, resultados, epoch, i,
                   errors, correct, convergence_epoch, y_pred, error, ret,
                   printed, pred_in, pred_out, last_op, calls, hist_base,
                   epoch_n, w_epoch, b_epoch, errs, updates, epochs_run,
                   trained, before, cota, epoch_log>>

\* one call of validate_date_range, on any arguments; no perceptron is used
InitDates == Construct(1, <<0, 0>>, 0)

NextDates ==
    \/ /\ dates.kind = "none"
       /\ \E s \in DateStrings, e \in DateStrings, m \in MaxMonthsArgs :
              ValidateDateRange(s, e, m)
    \/ /\ dates.kind = "none"
       /\ \E s \in DateStrings, e \in DateStrings, m \in MaxMonthsArgs :
              ValidateDateRangeRaise(s, e, m)

SpecDates == InitDates /\ [][NextDates]_vars

-----------------------------------------------------------------------------
(* Claims *)

\* a train call has returned and nothing has been called since but predict
TrainReturned == pc = "idle" /\ ret.kind = "return"

\* the indices of the entries the running (or last) train call appended
CallEntries == (hist_base + 1)..Len(error_history)

\* the 1-indexed epoch of the call that first recorded zero errors, 0 if none
FirstZeroEpoch ==
    IF \E k \in CallEntries : error_history[k] = 0
    THEN (CHOOSE k \in CallEntries :
              /\ error_history[k] = 0
              /\ \A j \in CallEntries : j < k => error_history[j] # 0) - hist_base
    ELSE 0

\* C1: the value train returns is the 1-indexed number of the first epoch of
\* the call that recorded zero errors, or epochs if no epoch of the call did,
\* whatever the verbose flag.
C1_ReturnsFirstZeroEpoch ==
    TrainReturned =>
        ret.val = IF FirstZeroEpoch # 0 THEN FirstZeroEpoch ELSE epochs

\* C2: train stops early: among the entries one train call appends to
\* error_history a 0 can only be the last entry, whatever the verbose flag.
C2_ZeroOnlyLast ==
    \A k \in CallEntries : error_history[k] = 0 => k = Len(error_history)

\* w and b at the head of the running epoch with the updates of its first k
\* samples applied, one after the other
RECURSIVE ReplayW(_)
ReplayW(k) ==
    IF k = 0 THEN w_epoch
    ELSE LET prev == ReplayW(k - 1)
         IN [j \in 1..Len(prev) |-> prev[j] + learning_rate * errs[k] * x[k][j]]

RECURSIVE ReplayB(_)
ReplayB(k) ==
    IF k = 0 THEN b_epoch ELSE ReplayB(k - 1) + learning_rate * errs[k]

\* the sign of z = xv.ww + bb for a sample of two features
Sign2(xv, ww, bb) ==
    IF xv[1] * ww[1] + xv[2] * ww[2] + bb >= 0 THEN 1 ELSE -1

\* C3: updates are online: within an epoch the model holds, after i samples,
\* the weights of the epoch's head plus the updates of samples 0..i-1, and
\* the last sample was predicted with the weights that include every update
\* made for the samples before it.
C3_OnlineUpdates ==
    pc = "for_i" =>
        /\ w = ReplayW(i)
        /\ b = ReplayB(i)
        /\ i > 0 => y_pred = Sign2(x[i], ReplayW(i - 1), ReplayB(i - 1))

\* C3 witness: the second sample of an epoch has been predicted after an
\* update for the first, and the weights of the epoch's head would have
\* predicted it otherwise.
C3_Witness ==
    /\ pc = "for_i" /\ i = 2
    /\ errs[1] # 0
    /\ y_pred # Sign2(x[2], w_epoch, b_epoch)

\* C4: for a label in {-1,+1}, a misclassified sample changes w by exactly
\* learning_rate * (y[i] - y_pred) * x[i] and b by learning_rate *
\* (y[i] - y_pred), with y[i] - y_pred in {-2, +2}; for y[i] = 1 and
\* y_pred = -1 that is 2 * learning_rate * x[i] and 2 * learning_rate.
C4_UpdateMagnitude ==
    [][(/\ pc = "for_i" /\ pc' = "for_i" /\ i' = i + 1
        /\ y[i + 1] \in {-1, 1}
        /\ y_pred' # y[i + 1])
       => LET d == y[i + 1] - y_pred'
          IN /\ d \in {-2, 2}
             /\ \A k \in 1..Len(w) :
                    w'[k] - w[k] = learning_rate * d * x[i + 1][k]
             /\ b' - b = learning_rate * d
             /\ (y[i + 1] = 1 /\ y_pred' = -1) =>
                    /\ \A k \in 1..Len(w) :
                           w'[k] - w[k] = 2 * learning_rate * x[i + 1][k]
                    /\ b' - b = 2 * learning_rate]_vars

\* C4 witness: a sample labelled +1 has just been predicted -1 and the
\* update for it applied.
C4_Witness ==
    /\ pc = "for_i" /\ i >= 1
    /\ y[i] = 1 /\ y_pred = -1 /\ error = 2
    /\ w # ReplayW(i - 1)

\* C5: predict returns +1 when z = x.w + b is >= 0 and -1 otherwise; on the
\* decision boundary (z = 0) it returns +1, and it never returns 0.
C5_PredictSign ==
    (last_op = "predict" /\ pred_out.kind = "return") =>
        LET z == pred_in[1] * w[1] + pred_in[2] * w[2] + b
        IN /\ z >= 0 => pred_out.val = 1
           /\ z < 0 => pred_out.val = -1
           /\ pred_out.val # 0

\* C5 witness: after a train call, predict has returned +1 for a sample
\* exactly on the decision boundary.
C5_Witness ==
    /\ last_op = "predict" /\ pred_out.kind = "return" /\ calls >= 1
    /\ pred_in[1] * w[1] + pred_in[2] * w[2] + b = 0
    /\ pred_out.val = 1

\* C6: predict is a pure function of w and b: a predict call (the only step
\* from idle to idle) leaves w, b, both histories and the stored training
\* set unchanged, and called again on the same input with no train call in
\* between it returns the same output.
C6_PredictPure ==
    [][(pc = "idle" /\ pc' = "idle") =>
        /\ UNCHANGED <<w, b, error_history, accuracy_history, training_data>>
        /\ (last_op = "predict" /\ pred_in' = pred_in) => pred_out' = pred_out
      ]_vars

\* C6 witness: predict has returned a prediction on a trained model whose
\* weights training has changed.
C6_Witness ==
    /\ last_op = "predict" /\ pred_out.kind = "return"
    /\ calls >= 1 /\ updates > 0

\* C7: for every recorded epoch k, accuracy_history[k] = (n - error_history[k])
\* / n with n the sample count of the call that recorded it; equivalently
\* the mistakes and the hits counted in an epoch sum to the samples seen.
C7_Complementarity ==
    /\ Len(accuracy_history) = Len(error_history)
    /\ \A k \in 1..Len(error_history) :
           accuracy_history[k][1] * epoch_n[k]
               = (epoch_n[k] - error_history[k]) * accuracy_history[k][2]
    /\ pc = "for_i" => errors + correct = i

\* C7 witness: two calls with different sample counts have recorded epochs,
\* one of them with some but not all samples misclassified.
C7_Witness ==
    \E j, k \in 1..Len(error_history) :
        /\ epoch_n[j] # epoch_n[k]
        /\ 0 < error_history[k] /\ error_history[k] < epoch_n[k]

\* predict returns the label of every sample of the stored training set
Converged ==
    /\ training_data # None
    /\ \A k \in 1..Len(training_data[1]) :
           /\ Aligned(training_data[1][k], w)
           /\ Sign2(training_data[1][k], w, b) = training_data[2][k]

\* the stored training set has labels in {-1,+1} and the feature count of w
WellFormed ==
    /\ training_data # None
    /\ \A k \in 1..Len(training_data[1]) :
           /\ Aligned(training_data[1][k], w)
           /\ training_data[2][k] \in {-1, 1}

\* C9 as stated (for well-formed training sets, between operations):
\* whenever the last entry of error_history is 0, predict with the current
\* w and b returns y[i] for every sample of the training set most recently
\* passed to train.
C9_LastZeroConverged ==
    (/\ pc = "idle" /\ WellFormed
     /\ error_history # <<>> /\ Last(error_history) = 0)
        => Converged

\* C9 amended: whenever a train call that ran at least one epoch has
\* returned and the last entry of error_history is 0, predict with the
\* current w and b returns y[i] for every sample of that call's training set.
C9_LastZeroConvergedAfterEpoch ==
    (/\ TrainReturned
     /\ Len(error_history) > hist_base
     /\ Last(error_history) = 0)
        => Converged

\* C9 witness: a second train call has returned after an epoch without
\* errors, on a model that training has changed.
C9_Witness ==
    /\ TrainReturned /\ calls = 2
    /\ Len(error_history) > hist_base
    /\ Last(error_history) = 0
    /\ updates > 0


\* C8: on separable samples labelled y = sign(x . w*) with none on the
\* boundary, a train call with enough epochs returns, has run an epoch
\* without errors, whatever the initial w and b, and returns a
\* convergence_epoch <= epochs.
C8_SeparableConverges ==
    (pc = "idle" /\ calls > 0) =>
        /\ ret.kind = "return"
        /\ \E k \in CallEntries : error_history[k] = 0
        /\ ret.val <= epochs

\* C8 witness: a call has returned whose first epoch without errors was
\* its third or a later one, after three or more updates.
C8_Witness ==
    /\ TrainReturned /\ calls > 0
    /\ FirstZeroEpoch >= 3
    /\ updates >= 3

\* C10: in the scenario train runs an epoch without errors in fewer than 50
\* epochs, returns a convergence_epoch < 50, and afterwards predict on the
\* four points equals y.
C10_ScenarioConverges ==
    TrainReturned =>
        /\ FirstZeroEpoch \in 1..(Scenario.epochs - 1)
        /\ ret.val < Scenario.epochs
        /\ Converged


-----------------------------------------------------------------------------
(* Claims about evaluar_cota *)

\* squared norm and unsigned margin of sample k of the last evaluar_cota
\* call, for samples of two features
CotaNorm2(k) == cota.x[k][1] * cota.x[k][1] + cota.x[k][2] * cota.x[k][2]
CotaMargin(k) ==
    Abs(cota.y[k] * (cota.x[k][1] * cota.w[1] + cota.x[k][2] * cota.w[2]))
CotaSamples == 1..Len(cota.x)

\* C11: evaluar_cota fails with an error when the minimum margin is 0 (a
\* sample lies on the boundary of w): it does not complete normally.
C11_DegenerateMarginFails ==
    cota.kind = "report" => \A k \in CotaSamples : CotaMargin(k) # 0

\* C15: evaluar_cota takes R as the largest norm of a sample, rho as the
\* smallest |y_i * (x_i . w)| and ||w||^2, all with the w passed as argument,
\* and (rho not 0) bound = (R^2 / rho^2) * ||w||^2; it reports that the
\* bound holds exactly when steps <= bound.
C15_MarginBound ==
    cota.kind = "report" =>
        /\ \E k \in CotaSamples : cota.R2 = CotaNorm2(k)
        /\ \A k \in CotaSamples : CotaNorm2(k) <= cota.R2
        /\ \E k \in CotaSamples : cota.rho = CotaMargin(k)
        /\ \A k \in CotaSamples : cota.rho <= CotaMargin(k)
        /\ cota.nsq_w = cota.w[1] * cota.w[1] + cota.w[2] * cota.w[2]
        /\ cota.rho # 0 =>
              /\ cota.bound[2] > 0
              /\ cota.bound[1] * cota.rho * cota.rho
                     = cota.R2 * cota.nsq_w * cota.bound[2]
              /\ cota.holds <=>
                     (cota.steps * cota.rho * cota.rho <= cota.R2 * cota.nsq_w)

\* C15 witness: on a trained model evaluar_cota, given a w other than the
\* model's, has reported a bound that steps meets exactly, with samples of
\* different margins' signs.
C15_Witness ==
    /\ cota.kind = "report" /\ calls = 1 /\ updates > 0
    /\ cota.w # w
    /\ cota.rho # 0
    /\ cota.steps * cota.rho * cota.rho = cota.R2 * cota.nsq_w
    /\ cota.holds
    /\ \E k \in CotaSamples :
           cota.y[k] * (cota.x[k][1] * cota.w[1] + cota.x[k][2] * cota.w[2]) < 0

-----------------------------------------------------------------------------
(* Claims about repeated and failing train calls *)

\* C12: repeated train calls accumulate and never reset: the first sample of
\* a call is predicted with the w and b that the model held when the call
\* started, and the length of error_history is the number of epochs run by
\* all calls so far.
C12_Accumulates ==
    /\ Len(error_history) = epochs_run
    /\ (pc = "for_i" /\ epoch = 0 /\ i = 0) => (w = before.w /\ b = before.b)
    /\ (pc = "for_i" /\ epoch = 0 /\ i = 1) =>
           y_pred = Sign2(x[1], before.w, before.b)

\* C12 witness: the first sample of a second call has been predicted, on a
\* model whose first call recorded an epoch with mistakes.
C12_Witness ==
    /\ pc = "for_i" /\ epoch = 0 /\ i = 1 /\ calls = 2
    /\ \E k \in 1..Len(before.error_history) : before.error_history[k] > 0

\* both histories and the stored training set are as construction left them
Untrained ==
    /\ error_history = <<>> /\ accuracy_history = <<>>
    /\ training_data = None

\* C13 as stated: before any train call both histories are empty and no
\* training set is stored; after a train call has returned both histories
\* are non-empty.
C13_TwoStates ==
    /\ calls = 0 => Untrained
    /\ TrainReturned => (error_history # <<>> /\ accuracy_history # <<>>)

\* C13 amended: before any train call both histories are empty and no
\* training set is stored; after a train call with epochs >= 1 has returned
\* both histories are non-empty.
C13_TwoStatesWithEpochs ==
    /\ calls = 0 => Untrained
    /\ trained => (error_history # <<>> /\ accuracy_history # <<>>)

\* C13 witness: after a call that ran epochs, a later call with epochs = 0
\* has returned.
C13_Witness ==
    /\ trained /\ TrainReturned /\ calls = 2 /\ epochs = 0

\* some sample of the running (or last) train call has another feature count
\* than w
Mismatched == \E k \in 1..Len(x) : Len(x[k]) # Len(w)

\* a call on mismatched samples has predicted nothing and updated nothing
NothingApplied ==
    /\ y_pred = 0
    /\ w = w_epoch /\ b = b_epoch
    /\ Len(error_history) = hist_base

\* C14 as stated: predict or train on input whose feature count differs from
\* the length of w fails with an error, and never returns a prediction or
\* applies an update.
C14_MismatchFails ==
    /\ (last_op = "predict" /\ Len(pred_in) # Len(w))
           => pred_out.kind = "raise"
    /\ (calls >= 1 /\ Mismatched) => NothingApplied
    /\ (pc = "idle" /\ calls >= 1 /\ Mismatched) => ret.kind = "raise"

\* C14 amended: predict on input whose feature count differs from the
\* length of w fails with an error, and so does train when it has an epoch
\* to run or resultados is on (with epochs = 0 and resultados off it
\* returns); no such call returns a prediction or applies an update.
C14_MismatchFailsWhenUsed ==
    /\ (last_op = "predict" /\ Len(pred_in) # Len(w))
           => pred_out.kind = "raise"
    /\ (calls >= 1 /\ Mismatched) => NothingApplied
    /\ (pc = "idle" /\ calls >= 1 /\ Mismatched /\ (epochs >= 1 \/ resultados))
           => ret.kind = "raise"
    /\ (pc = "idle" /\ calls >= 1 /\ Mismatched /\ epochs = 0 /\ ~resultados)
           => ret.kind = "return"

\* C14 witness: on a model with recorded epochs, a train call on mismatched
\* samples has raised, and so has a predict call after it.
C14_Witness ==
    /\ pc = "idle" /\ calls = 2 /\ hist_base > 0
    /\ Mismatched /\ ret.kind = "raise"
    /\ last_op = "predict" /\ Len(pred_in) # Len(w) /\ pred_out.kind = "raise"

\* the steps a running train call has left at most
Rank ==
    CASE pc = "idle"       -> 0
      [] pc = "after_loop" -> 1
      [] pc = "for_epoch"  -> (epochs - epoch) * (Len(x) + 2) + 2
      [] pc = "for_i"      -> (epochs - epoch - 1) * (Len(x) + 2)
                                  + (Len(x) - i) + 3

\* C16: every train call terminates: it runs at most epochs passes of n
\* samples each and then returns (or raises): a running call can always
\* step, every step brings it nearer to its end, and its counters stay
\* within epochs and n.
C16_Terminates ==
    /\ [](pc # "idle" => ENABLED TrainStep)
    /\ [](/\ epoch <= epochs
          /\ i <= Len(x)
          /\ Len(error_history) - hist_base <= epochs)
    /\ [][pc # "idle" => (Rank' < Rank /\ Rank' >= 0)]_vars

\* C16 witness: a call on samples that cannot be separated has run all its
\* epochs, the last one with mistakes, and has returned.
C16_Witness ==
    /\ TrainReturned /\ epochs = MaxEpochs
    /\ Len(error_history) - hist_base = epochs
    /\ Last(error_history) > 0

\* C17: w and b change only at misclassified samples: a sample whose
\* prediction equals its label leaves w and b unchanged and increments only
\* the correct counter, and no other step of any operation changes w or b.
C17_UpdateOnlyOnMistake ==
    [][/\ (pc = "for_i" /\ pc' = "for_i" /\ i' = i + 1 /\ y_pred' = y[i + 1])
           => /\ w' = w /\ b' = b
              /\ correct' = correct + 1
              /\ errors' = errors
       /\ (w' # w \/ b' # b)
           => (pc = "for_i" /\ i' = i + 1 /\ y_pred' # y[i + 1])
      ]_vars

\* C17 witness: a correctly predicted sample has been processed after an
\* update in the same epoch.
C17_Witness ==
    /\ pc = "for_i" /\ i >= 2
    /\ y_pred = y[i] /\ error = 0
    /\ \E k \in 1..(i - 1) : errs[k] # 0

\* C18: if a train call fails, the model is as it was before the call: w, b,
\* error_history, accuracy_history and the stored training set are unchanged.
C18_FailedTrainRestores ==
    (pc = "idle" /\ ret.kind = "raise") =>
        /\ w = before.w /\ b = before.b
        /\ error_history = before.error_history
        /\ accuracy_history = before.accuracy_history
        /\ training_data = before.training_data

IsPrefix(s, t) == Len(s) <= Len(t) /\ \A k \in 1..Len(s) : s[k] = t[k]

\* C19: error_history and accuracy_history have the same length between
\* operations, and no step of any operation removes or changes an entry:
\* each history before is a prefix of the history after.
C19_AppendOnly ==
    /\ [](pc = "idle" => Len(error_history) = Len(accuracy_history))
    /\ [][/\ IsPrefix(error_history, error_history')
          /\ IsPrefix(accuracy_history, accuracy_history')]_vars

\* C19 witness: a second call has appended entries after those of the first.
C19_Witness ==
    /\ pc = "idle" /\ calls = 2
    /\ hist_base > 0 /\ Len(error_history) > hist_base

\* C20: after every train call that returns, a call with epochs = 0
\* included, the stored training set is the (x, y) of that call.
C20_StoresLastTrainingSet ==
    TrainReturned => training_data = <<x, y>>

\* C20 witness: a call with epochs = 0 has returned on a model whose last
\* recorded epoch was run on a sample set of another size.
C20_Witness ==
    /\ TrainReturned /\ calls = 2 /\ epochs = 0
    /\ epoch_n # <<>>
    /\ Len(training_data[1]) # Last(epoch_n)

-----------------------------------------------------------------------------
(* Claims about the recorded histories and the diagnostics *)

\* C21: every entry of error_history is an integer between 0 and n and every
\* entry of accuracy_history is between 0 and 1, with n the sample count of
\* the train call that recorded the entry.
C21_HistoryRanges ==
    /\ \A k \in 1..Len(error_history) :
           error_history[k] \in 0..epoch_n[k]
    /\ \A k \in 1..Len(accuracy_history) :
           /\ accuracy_history[k][2] > 0
           /\ 0 <= accuracy_history[k][1]
           /\ accuracy_history[k][1] <= accuracy_history[k][2]

\* C21 witness: an epoch over two or more samples has recorded a mistake on
\* every sample (accuracy 0) and another epoch none (accuracy 1).
C21_Witness ==
    \E j, k \in 1..Len(error_history) :
        /\ epoch_n[j] >= 2 /\ error_history[j] = epoch_n[j]
        /\ accuracy_history[j] = <<0, 1>>
        /\ error_history[k] = 0 /\ accuracy_history[k] = <<1, 1>>

\* C22: evaluar_cota mutates nothing: the step of an evaluar_cota call,
\* reporting or raising, leaves w, b, error_history, accuracy_history and the
\* stored training set as they were.
C22_CotaPure ==
    [][(cota.kind = "none" /\ cota'.kind # "none") =>
           UNCHANGED <<w, b, learning_rate, error_history, accuracy_history,
                       training_data>>]_vars

\* C22 witness: evaluar_cota has reported on a trained model, for a w that
\* is not the model's and samples that are not the stored training set.
C22_Witness ==
    /\ cota.kind = "report" /\ calls = 1 /\ updates > 0
    /\ TrainReturned /\ error_history # <<>>
    /\ cota.w # w
    /\ <<cota.x, cota.y>> # training_data

\* C23: the final accuracy print_results reports at the end of a verbose
\* train call is a number train has computed: the last entry of
\* accuracy_history.
C23_FinalAccuracyIsLast ==
    (TrainReturned /\ resultados) =>
        /\ accuracy_history # <<>>
        /\ printed.final_accuracy = Last(accuracy_history)

\* the running (or last) train call has samples of the feature count of w,
\* one of them with a label that is neither -1 nor +1
BadLabelCall ==
    /\ calls >= 1 /\ Len(x) > 0
    /\ \A k \in 1..Len(x) : Len(x[k]) = Len(w)
    /\ \E k \in 1..Len(y) : y[k] \notin {-1, 1}

\* C24: train does not validate labels: a call with a label outside {-1,+1}
\* raises no error; a sample with such a label is counted as a mistake and
\* updates w and b in every epoch, so no epoch of the call records zero
\* errors.
C24_BadLabelNeverConverges ==
    /\ [](BadLabelCall =>
              /\ \A k \in CallEntries : error_history[k] >= 1
              /\ pc = "idle" => ret.kind = "return")
    /\ [][(/\ pc = "for_i" /\ pc' = "for_i" /\ i' = i + 1
           /\ y[i + 1] \notin {-1, 1})
          => /\ error' # 0
             /\ errors' = errors + 1 /\ correct' = correct
             /\ updates' = updates + 1
             /\ b' # b
             /\ w' = [k \in 1..Len(w) |->
                          w[k] + learning_rate * error' * x[i + 1][k]]]_vars

\* C24 witness: a verbose call with a label 0 has run all its epochs, each
\* with a mistake, and has returned.
C24_Witness ==
    /\ BadLabelCall /\ TrainReturned /\ resultados
    /\ epochs = MaxEpochs /\ ret.val = epochs
    /\ Len(error_history) - hist_base = epochs
    /\ \A k \in CallEntries : error_history[k] >= 1

-----------------------------------------------------------------------------
(* Claim about validate_date_range *)

\* C25: validate_date_range keeps the range within the maximum: for start <=
\* end the returned end date is no later than start plus max_months calendar
\* months and the returned start is the start given; start > end raises
\* ValueError.
C25_RangeWithinMax ==
    /\ dates.kind = "return" =>
           /\ ~DateLt(AddMonths(strptime(dates.start_date), dates.max_months),
                      strptime(dates.out_end))
           /\ dates.out_start = dates.start_date
    /\ (/\ dates.kind # "none"
        /\ Parses(dates.start_date) /\ Parses(dates.end_date)
        /\ DateLt(strptime(dates.end_date), strptime(dates.start_date)))
           => (dates.kind = "raise" /\ dates.exc = "ValueError")

-----------------------------------------------------------------------------
(* Claims about the value train returns and the verbose flag *)

LoopDone ==
    /\ pc = "after_loop" /\ Len(x) > 0
    /\ \A k \in 1..Len(x) : Len(x[k]) = Len(w)

\* the value the call is about to return and the model it leaves are those
\* of the same call with the verbose flag res
SameAsWithFlag(res) ==
    LET o == TrainOutcome(res)
    IN /\ convergence_epoch = o.convergence_epoch
       /\ w = o.w /\ b = o.b
       /\ error_history = o.error_history
       /\ accuracy_history = o.accuracy_history

\* C27: the verbose flag only affects what is printed: from the same w, b
\* and histories and with the same x, y and epochs, train with the flag on
\* and train with the flag off return the same convergence_epoch and leave
\* the same w, b, error_history and accuracy_history.
C27_FlagOnlyPrints ==
    LoopDone => SameAsWithFlag(~resultados)

-----------------------------------------------------------------------------
(* Claims about the updates *)

\* the signed margin yv * (xv . ww + bb) of a sample of two features
Margin2(xv, yv, ww, bb) == yv * (xv[1] * ww[1] + xv[2] * ww[2] + bb)

\* C29: each update moves toward the sample: for a misclassified sample with
\* label -1 or +1 and learning rate eta > 0, the signed margin y_i * (x_i . w
\* + b) after the update is the margin before it plus 2 * eta * (||x_i||^2
\* + 1), so it strictly increases.
C29_UpdateRaisesMargin ==
    [][(/\ pc = "for_i" /\ pc' = "for_i" /\ i' = i + 1
        /\ y[i + 1] \in {-1, 1}
        /\ y_pred' # y[i + 1]
        /\ learning_rate > 0)
       => LET xv == x[i + 1]
              yv == y[i + 1]
          IN /\ Margin2(xv, yv, w', b')
                    = Margin2(xv, yv, w, b)
                      + 2 * learning_rate * (xv[1] * xv[1] + xv[2] * xv[2] + 1)
             /\ Margin2(xv, yv, w', b') > Margin2(xv, yv, w, b)]_vars

\* C29 witness: a sample labelled -1 of non-zero features has been
\* misclassified and updated for, in a second call.
C29_Witness ==
    /\ pc = "for_i" /\ i >= 1 /\ calls = 2
    /\ y[i] = -1 /\ y_pred = 1 /\ error = -2
    /\ x[i] # <<0, 0>>
    /\ Margin2(x[i], y[i], w, b) > 0

\* the recorded epochs j < k are over the same sample set
SameSamples(j, k) ==
    epoch_log[j].x = epoch_log[k].x /\ epoch_log[j].y = epoch_log[k].y

\* C28 as stated: a zero-error epoch is a fixed point: once an epoch over (x,
\* y) records zero errors, every later epoch over the same (x, y), in the
\* same or in a later train call, records zero errors and leaves w and b
\* unchanged.
C28_ZeroEpochFixedPoint ==
    \A j, k \in 1..Len(error_history) :
        (j < k /\ error_history[j] = 0 /\ SameSamples(j, k))
            => error_history[k] = 0

\* C28 amended: once an epoch over (x, y) records zero errors, every later
\* epoch over the same (x, y) that starts with w and b not updated since
\* records zero errors and leaves w and b unchanged, in the same or in a
\* later train call; so does the epoch that is running.
C28_ZeroEpochFixedPointUntilUpdate ==
    /\ \A j, k \in 1..Len(error_history) :
           (/\ j < k /\ error_history[j] = 0 /\ SameSamples(j, k)
            /\ epoch_log[k].updates - error_history[k] = epoch_log[j].updates)
               => error_history[k] = 0
    /\ \A j \in 1..Len(error_history) :
           (/\ pc = "for_i" /\ error_history[j] = 0
            /\ epoch_log[j].x = x /\ epoch_log[j].y = y
            /\ updates - errors = epoch_log[j].updates)
               => (errors = 0 /\ w = w_epoch /\ b = b_epoch)

\* C28 witness: a call has recorded an epoch with mistakes and then one
\* without, and a later call on the same samples has recorded an epoch
\* without mistakes too.
C28_Witness ==
    /\ pc = "idle" /\ calls >= 2
    /\ \E j, k \in 1..Len(error_history) :
           /\ j < k /\ j <= hist_base /\ hist_base < k
           /\ j >= 2 /\ error_history[j - 1] > 0 /\ SameSamples(j - 1, j)
           /\ error_history[j] = 0 /\ SameSamples(j, k)
           /\ error_history[k] = 0

RECURSIVE SumSeq(_)
SumSeq(s) == IF s = <<>> THEN 0 ELSE Head(s) + SumSeq(Tail(s))

\* C30: over any sequence of train calls on one model, the number of updates
\* applied to w and b since construction is the sum of the entries of
\* error_history (with the mistakes counted so far in a running epoch).
C30_UpdatesAreErrors ==
    updates = SumSeq(error_history) + (IF pc = "for_i" THEN errors ELSE 0)

=============================================================================
